---- MODULE Spec2Model ----
(***************************************************************************)
(* cloudbot (src/main.py): the backup thread, its stage events, and the    *)
(* Telegram bot's command handlers.                                        *)
(*                                                                         *)
(* The specifications share the variables:                                 *)
(*   Spec        BackupThread as written: construction,                    *)
(*               set_message_callback, run() entered at line 118.          *)
(*   SpecStages  the stage sequence of run(), lines 119-174, entered with  *)
(*               the events as line 118 is written to leave them (all      *)
(*               cleared).  Under Spec no behaviour gets there: clear_all  *)
(*               raises on the ProgressEvent (see EventClear).             *)
(*   SpecBot     the Bot's command handlers and the permission check.      *)
(*   SpecDialog  the Bot's handlers with the confirmation dialog and its   *)
(*               timeout, the timeout job running when due.                *)
(*   SpecEvent   the methods of Event and ProgressEvent called on the      *)
(*               events of an idle thread, then run().                     *)
(*   SpecRace    one Event, its writer statement by statement, and         *)
(*               concurrent readers.                                       *)
(*   SpecCopy    one Event and the identity of the objects passed to and   *)
(*               returned by its result property.                          *)
(***************************************************************************)
EXTENDS Integers, Sequences, FiniteSets, TLC

VARIABLES
    events,       \* BackupThread.events: event name -> latches and result
    pc,           \* where the thread running run() is
    failed,       \* run()'s local `failed`
    callback,     \* BackupThread._send_message: "None" or "set"
    sink,         \* this run's send_message calls: the message, what the callback did
    env,          \* what mkdir and the external commands answer in this run
    ret,          \* what they have answered so far ("none": not invoked)
    log,          \* the signals this run has latched, in the order of the calls
    known_users,  \* Bot.known_users: id -> role, "absent" when not listed
    dialog,       \* ids whose conversation is in EXPECT_BACKUP_CONFIRMATION
    last,         \* the last update dispatched and what its handler did
    perm,         \* the last direct evaluation of user_has_permission
    conv,         \* per id, its latest confirmation dialog: how it ended, timeout replies sent
    progress_value, \* data_backup's __progress_value, in tenths ("unset": no such attribute)
    op,           \* the last call a client made on an event and how it ended
    writer,       \* where the thread that emits and clears one event is in its call
    reader,       \* each reading thread: what it saw latched, what it then read
    mem           \* objects: their contents, the one __result refers to, the callers' own

vars == <<events, pc, failed, callback, sink, env, ret, log,
          known_users, dialog, last, perm, conv, progress_value, op,
          writer, reader, mem>>

threadVars == <<events, pc, failed, callback, sink, env, ret, log>>
botVars == <<known_users, dialog, last, perm, conv>>
apiVars == <<progress_value, op, writer, reader, mem>>

----------------------------------------------------------------------------
(* Event, ProgressEvent, BackupEvents                                      *)

\* dir(BackupEvents()) restricted to the attributes that are Events: sorted.
EventOrder ==
    <<"backup", "data_backup", "database_backup",
      "disable_maintenance", "enable_maintenance">>

EventNames == {EventOrder[i] : i \in 1..Len(EventOrder)}

\* data_backup is the one ProgressEvent.
IsProgress(n) == n = "data_backup"

\* dir(event) restricted to the attributes clear() can act on: sorted.
AttrOrder == <<"finished", "progress", "progress_value", "result", "started">>

\* Event.__init__: the latches are unset and __result does not exist yet.
NewEvent ==
    [started |-> FALSE, finished |-> FALSE, progress |-> FALSE,
     result |-> "unset"]

\* Python values stored as results.
PyBool(b) == IF b THEN "True" ELSE "False"
PyTuple(b) == IF b THEN "(True, out, err)" ELSE "(False, out, err)"

\* Python truth value: a non-empty tuple is true whatever it holds.
Truthy(v) == v \in {"True", "(True, out, err)", "(False, out, err)"}

emit_started(e) == [e EXCEPT !.started = TRUE]

\* An emit that stores the result and leaves the latch alone: what
\* emit_finished would be without line 42.
StoreResultOnly(e, r) == [e EXCEPT !.result = r]

emit_finished(e, r) == [e EXCEPT !.result = r, !.finished = TRUE]

\* The loop of Event.clear from attribute i on.  On a ProgressEvent the
\* getter of progress_value reads self.__lock inside class ProgressEvent,
\* that is _ProgressEvent__lock, which no object has: AttributeError.
RECURSIVE ClearAttrs(_, _, _)
ClearAttrs(e, isProgress, i) ==
    IF i > Len(AttrOrder) THEN [ev |-> e, raised |-> FALSE]
    ELSE LET a == AttrOrder[i] IN
         CASE a = "finished" ->
                ClearAttrs([e EXCEPT !.finished = FALSE], isProgress, i + 1)
           [] a = "progress" ->
                IF isProgress
                THEN ClearAttrs([e EXCEPT !.progress = FALSE], isProgress, i + 1)
                ELSE ClearAttrs(e, isProgress, i + 1)
           [] a = "progress_value" ->
                IF isProgress
                THEN [ev |-> e, raised |-> TRUE]
                ELSE ClearAttrs(e, isProgress, i + 1)
           [] a = "result" ->
                ClearAttrs(e, isProgress, i + 1)
           [] a = "started" ->
                ClearAttrs([e EXCEPT !.started = FALSE], isProgress, i + 1)

\* Event.clear: the result is set to None first, then the loop.
EventClear(e, isProgress) ==
    ClearAttrs([e EXCEPT !.result = "None"], isProgress, 1)

\* BaseEvents.clear_all from the i-th event on: the first exception ends it.
RECURSIVE ClearFrom(_, _)
ClearFrom(evs, i) ==
    IF i > Len(EventOrder) THEN [evs |-> evs, raised |-> FALSE]
    ELSE LET n == EventOrder[i]
             r == EventClear(evs[n], IsProgress(n))
         IN  IF r.raised
             THEN [evs |-> [evs EXCEPT ![n] = r.ev], raised |-> TRUE]
             ELSE ClearFrom([evs EXCEPT ![n] = r.ev], i + 1)

clear_all(evs) == ClearFrom(evs, 1)

\* BackupEvents.__init__
BackupEvents == [n \in EventNames |-> NewEvent]

\* The events as a clear_all that returns would leave them.
ClearedEvents ==
    [n \in EventNames |->
        [started |-> FALSE, finished |-> FALSE, progress |-> FALSE,
         result |-> "None"]]

\* Name mangling: self.__lock written inside class cls is the attribute
\* _cls__lock of the object.
Mangled(cls) ==
    IF cls = "Event" THEN "_Event__lock" ELSE "_ProgressEvent__lock"

\* The lock attributes an event object has: Event.__init__ creates the one.
LockAttrs == {Mangled("Event")}

Min2(a, b) == IF a < b THEN a ELSE b
Max2(a, b) == IF a > b THEN a ELSE b

\* min(1.0, max(0.0, float(progress))), progress in tenths
Clamp(v) == Min2(10, Max2(0, v))

\* progress_value.setter: `with self.__lock` inside class ProgressEvent.
\* pv is the set holding the stored value, empty while there is none.
set_progress_value(pv, v) ==
    IF Mangled("ProgressEvent") \in LockAttrs
    THEN [pv |-> {Clamp(v)}, raised |-> FALSE]
    ELSE [pv |-> pv, raised |-> TRUE]

\* ProgressEvent.emit_progress: the setter, then progress.set()
emit_progress(e, pv, v) ==
    LET s == set_progress_value(pv, v) IN
      IF s.raised
      THEN [ev |-> e, pv |-> pv, raised |-> TRUE]
      ELSE [ev |-> [e EXCEPT !.progress = TRUE], pv |-> s.pv, raised |-> FALSE]

\* No client has called anything yet.
NoOp ==
    [name |-> "none", target |-> "none", arg |-> "none", progress |-> 0,
     before |-> NewEvent, raised |-> FALSE]

\* Objects a caller can pass as a result: identities 1..MaxObjects, each
\* free or holding a mutable content (a list).
MaxObjects == 4
Objects == 1..MaxObjects
Contents == {"[]", "[x]", "[x, y]"}

Free(h) == {o \in Objects : h[o] = "free"}

\* A reference handed over as it is: no copy.
SameObject(h, o) == [heap |-> h, id |-> o]

\* copy.deepcopy(o): a new object with the content o has now.
deepcopy(h, o) ==
    LET n == CHOOSE f \in Free(h) : \A g \in Free(h) : f <= g
    IN  [heap |-> [h EXCEPT ![n] = h[o]], id |-> n]

\* result.setter (35-38) and the result getter (30-33)
set_result(h, o) == deepcopy(h, o)
get_result(h, o) == deepcopy(h, o)

\* No object exists; __result refers to none (0).
NoMem ==
    [heap |-> [o \in Objects |-> "free"], stored |-> 0, held |-> {},
     sent |-> "none", got |-> "none"]

NumReaders == 2
Readers == 1..NumReaders

\* The writer is between calls, nothing emitted yet; the readers have
\* looked at nothing.
NoCall == [pc |-> "new", arg |-> "none", emitted |-> "none"]
NoRead == [pc |-> "idle", expect |-> "none", got |-> "none"]

InitApiIdle ==
    /\ progress_value = {}
    /\ op = NoOp
    /\ writer = NoCall
    /\ reader = [k \in Readers |-> NoRead]
    /\ mem = NoMem

----------------------------------------------------------------------------
(* Bot: the registry, the permission check and the command handlers        *)

MaxUsers == 2
Ids == 1..MaxUsers

Roles == {"owner", "admin", "user"}

\* CmdPermission: auto() numbers the members from 1.
OWNER == 1
ADMIN == 2
USER == 3
STRANGER == 4
CmdPermission == {OWNER, ADMIN, USER, STRANGER}

\* Bot.commands: each Cmd's permission and is_entrypoint.
commands ==
    [c \in {"next", "backup", "start", "cancel"} |->
        CASE c = "next"   -> [permission |-> USER, is_entrypoint |-> FALSE]
          [] c = "backup" -> [permission |-> ADMIN, is_entrypoint |-> TRUE]
          [] c = "start"  -> [permission |-> STRANGER, is_entrypoint |-> FALSE]
          [] c = "cancel" -> [permission |-> USER, is_entrypoint |-> FALSE]]

NoUpdate ==
    [cmd |-> "none", user |-> 0, ran |-> FALSE, reply |-> "none",
     owner_notified |-> FALSE, opened |-> FALSE]

NoCheck == [user |-> 0, required |-> 0, result |-> FALSE]

is_user_known(user_id) == known_users[user_id] # "absent"

\* CmdPermission[role.upper()]; None (0 here) for an id that is not listed.
user_permission_level(user_id) ==
    CASE known_users[user_id] = "owner" -> OWNER
      [] known_users[user_id] = "admin" -> ADMIN
      [] known_users[user_id] = "user"  -> USER
      [] OTHER -> 0

user_has_permission(user_id, required_permission) ==
    IF ~is_user_known(user_id) THEN FALSE
    ELSE IF required_permission < user_permission_level(user_id) THEN FALSE
    ELSE TRUE

\* owner_id() is not None
HasOwner == \E u \in Ids : known_users[u] = "owner"

\* str.lower() on the texts the model sends
Texts == {"yes", "Yes", "NO", "maybe", "/backup"}
Lower(t) ==
    CASE t = "Yes" -> "yes"
      [] t = "NO" -> "no"
      [] OTHER -> t

----------------------------------------------------------------------------
(* BackupThread                                                            *)

Commands == {"enable_maintenance", "mysql_dump", "rsync", "disable_maintenance"}
Steps == {"mkdir"} \cup Commands

MkdirOutcomes == {"ok", "FileExistsError", "FileNotFoundError"}

\* One run's environment: os.mkdir's outcome and, for each command,
\* whether its process exits with code zero.
Env ==
    {e \in [Steps -> {"ok", "fail", "FileExistsError", "FileNotFoundError"}] :
        /\ e["mkdir"] \in MkdirOutcomes
        /\ \A c \in Commands : e[c] \in {"ok", "fail"}}

NoRet == [s \in Steps |-> "none"]

\* What one call of self._send_message(msg) can do: None(msg) raises
\* TypeError; a callable returns, raises TypeError or raises something else.
CallOutcomes(cb) ==
    IF cb = "None" THEN {"TypeError"} ELSE {"ok", "TypeError", "Error"}

\* send_message: the callback is called with msg; only TypeError is caught.
send_message(calls, msg, o) == Append(calls, [msg |-> msg, outcome |-> o])
Propagates(o) == o = "Error"

\* The messages the callback took.
Delivered(calls) == SelectSeq(calls, LAMBDA c : c.outcome = "ok")

Ended == {"done", "aborted", "crashed"}

InitThread ==
    /\ events = BackupEvents
    /\ pc = "idle"
    /\ failed = FALSE
    /\ callback = "None"
    /\ sink = <<>>
    /\ env \in Env
    /\ ret = NoRet
    /\ log = <<>>

\* No confirmation dialog has been opened for the id.
NoDialog == [state |-> "none", timeouts |-> 0]

InitBotIdle ==
    /\ known_users = [u \in Ids |-> "absent"]
    /\ dialog = {}
    /\ last = NoUpdate
    /\ perm = NoCheck
    /\ conv = [u \in Ids |-> NoDialog]

set_message_callback(fun) ==
    /\ callback' = fun
    /\ UNCHANGED <<events, pc, failed, sink, env, ret, log>>
    /\ UNCHANGED <<botVars, apiVars>>

\* run(), lines 117-118: clear_all, and the exception it may raise leaves run.
Run ==
    /\ pc \in {"idle"} \cup Ended
    /\ \E e \in Env : env' = e
    /\ LET c == clear_all(events) IN
         /\ events' = c.evs
         /\ pc' = IF c.raised THEN "crashed" ELSE "mkdir"
    /\ failed' = FALSE
    /\ sink' = <<>>
    /\ ret' = NoRet
    /\ log' = <<>>
    /\ UNCHANGED callback
    /\ UNCHANGED <<botVars, apiVars>>

\* lines 119-138
Mkdir ==
    /\ pc = "mkdir"
    /\ ret' = [ret EXCEPT !["mkdir"] = env["mkdir"]]
    /\ IF env["mkdir"] = "ok"
       THEN /\ pc' = "enable_start"
            /\ UNCHANGED <<events, failed, sink, log>>
       ELSE \E o \in CallOutcomes(callback) :
            /\ sink' = send_message(sink, "mkdir failed", o)
            /\ IF Propagates(o)
               THEN /\ pc' = "crashed"
                    /\ UNCHANGED <<events, failed, log>>
               ELSE /\ failed' = TRUE
                    /\ events' = [events EXCEPT
                          !["backup"] = emit_finished(@, PyBool(FALSE))]
                    /\ log' = Append(log, <<"backup", "finished">>)
                    /\ pc' = "aborted"
    /\ UNCHANGED <<callback, env>>
    /\ UNCHANGED <<botVars, apiVars>>

\* line 140, and enable_maintenance() up to its send_message (202-204)
EnableStart ==
    /\ pc = "enable_start"
    /\ events' = [events EXCEPT !["enable_maintenance"] = emit_started(@)]
    /\ log' = Append(log, <<"enable_maintenance", "started">>)
    /\ \E o \in CallOutcomes(callback) :
         /\ sink' = send_message(sink, "enabling", o)
         /\ pc' = IF Propagates(o) THEN "crashed" ELSE "enable_cmd"
    /\ UNCHANGED <<failed, callback, env, ret>>
    /\ UNCHANGED <<botVars, apiVars>>

\* enable_maintenance()'s command (205-213) and lines 141-148
EnableFinish ==
    /\ pc = "enable_cmd"
    /\ ret' = [ret EXCEPT !["enable_maintenance"] = env["enable_maintenance"]]
    /\ LET success == env["enable_maintenance"] = "ok"
           evs == [events EXCEPT
                     !["enable_maintenance"] = emit_finished(@, PyBool(success))]
       IN  IF success
           THEN /\ events' = evs
                /\ log' = Append(log, <<"enable_maintenance", "finished">>)
                /\ pc' = "dump_start"
                /\ UNCHANGED sink
           ELSE \E o \in CallOutcomes(callback) :
                /\ sink' = send_message(sink, "enable failed", o)
                /\ IF Propagates(o)
                   THEN /\ events' = evs
                        /\ log' = Append(log, <<"enable_maintenance", "finished">>)
                        /\ pc' = "crashed"
                   ELSE /\ events' = [evs EXCEPT
                              !["backup"] = emit_finished(@, PyBool(FALSE))]
                        /\ log' = log \o <<<<"enable_maintenance", "finished">>,
                                            <<"backup", "finished">>>>
                        /\ pc' = "aborted"
    /\ UNCHANGED <<failed, callback, env>>
    /\ UNCHANGED <<botVars, apiVars>>

\* line 150
DumpStart ==
    /\ pc = "dump_start"
    /\ events' = [events EXCEPT !["database_backup"] = emit_started(@)]
    /\ log' = Append(log, <<"database_backup", "started">>)
    /\ pc' = "dump_cmd"
    /\ UNCHANGED <<failed, callback, sink, env, ret>>
    /\ UNCHANGED <<botVars, apiVars>>

\* mysql_dump() and lines 151-157
DumpFinish ==
    /\ pc = "dump_cmd"
    /\ ret' = [ret EXCEPT !["mysql_dump"] = env["mysql_dump"]]
    /\ LET success == env["mysql_dump"] = "ok" IN
         /\ events' = [events EXCEPT
               !["database_backup"] = emit_finished(@, PyBool(success))]
         /\ log' = Append(log, <<"database_backup", "finished">>)
         /\ IF success
            THEN /\ pc' = "rsync_start"
                 /\ UNCHANGED <<failed, sink>>
            ELSE \E o \in CallOutcomes(callback) :
                 /\ failed' = TRUE
                 /\ sink' = send_message(sink, "dump failed", o)
                 /\ pc' = IF Propagates(o) THEN "crashed" ELSE "disable_start"
    /\ UNCHANGED <<callback, env>>
    /\ UNCHANGED <<botVars, apiVars>>

\* line 159
RsyncStart ==
    /\ pc = "rsync_start"
    /\ events' = [events EXCEPT !["data_backup"] = emit_started(@)]
    /\ log' = Append(log, <<"data_backup", "started">>)
    /\ pc' = "rsync_cmd"
    /\ UNCHANGED <<failed, callback, sink, env, ret>>
    /\ UNCHANGED <<botVars, apiVars>>

\* rsync() and lines 160-166: `success` is the whole tuple rsync() returns.
RsyncFinish ==
    /\ pc = "rsync_cmd"
    /\ ret' = [ret EXCEPT !["rsync"] = env["rsync"]]
    /\ LET success == PyTuple(env["rsync"] = "ok") IN
         /\ events' = [events EXCEPT
               !["data_backup"] = emit_finished(@, success)]
         /\ log' = Append(log, <<"data_backup", "finished">>)
         /\ IF Truthy(success)
            THEN /\ pc' = "disable_start"
                 /\ UNCHANGED <<failed, sink>>
            ELSE \E o \in CallOutcomes(callback) :
                 /\ failed' = TRUE
                 /\ sink' = send_message(sink, "rsync failed", o)
                 /\ pc' = IF Propagates(o) THEN "crashed" ELSE "disable_start"
    /\ UNCHANGED <<callback, env>>
    /\ UNCHANGED <<botVars, apiVars>>

\* line 168
DisableStart ==
    /\ pc = "disable_start"
    /\ events' = [events EXCEPT !["disable_maintenance"] = emit_started(@)]
    /\ log' = Append(log, <<"disable_maintenance", "started">>)
    /\ pc' = "disable_cmd"
    /\ UNCHANGED <<failed, callback, sink, env, ret>>
    /\ UNCHANGED <<botVars, apiVars>>

\* disable_maintenance() and lines 169-172
DisableFinish ==
    /\ pc = "disable_cmd"
    /\ ret' = [ret EXCEPT !["disable_maintenance"] = env["disable_maintenance"]]
    /\ LET success == env["disable_maintenance"] = "ok" IN
         /\ events' = [events EXCEPT
               !["disable_maintenance"] = emit_finished(@, PyBool(success))]
         /\ log' = Append(log, <<"disable_maintenance", "finished">>)
         /\ failed' = (failed \/ ~success)
    /\ pc' = "finish"
    /\ UNCHANGED <<callback, sink, env>>
    /\ UNCHANGED <<botVars, apiVars>>

\* line 174
BackupFinish ==
    /\ pc = "finish"
    /\ events' = [events EXCEPT
          !["backup"] = emit_finished(@, PyBool(~failed))]
    /\ log' = Append(log, <<"backup", "finished">>)
    /\ pc' = "done"
    /\ UNCHANGED <<failed, callback, sink, env, ret>>
    /\ UNCHANGED <<botVars, apiVars>>

Init == InitThread /\ InitBotIdle /\ InitApiIdle

Next ==
    \/ \E fun \in {"None", "set"} : set_message_callback(fun)
    \/ Run

Spec == Init /\ [][Next]_vars

\* run() from line 119 on, the events cleared.
InitStages ==
    /\ events = ClearedEvents
    /\ pc = "mkdir"
    /\ failed = FALSE
    /\ callback \in {"None", "set"}
    /\ sink = <<>>
    /\ env \in Env
    /\ ret = NoRet
    /\ log = <<>>
    /\ InitBotIdle
    /\ InitApiIdle

NextStages ==
    \/ Mkdir
    \/ EnableStart
    \/ EnableFinish
    \/ DumpStart
    \/ DumpFinish
    \/ RsyncStart
    \/ RsyncFinish
    \/ DisableStart
    \/ DisableFinish
    \/ BackupFinish

SpecStages == InitStages /\ [][NextStages]_vars

----------------------------------------------------------------------------
(* Clients of the events: the methods of Event and ProgressEvent called    *)
(* on the events of a BackupThread that is not running, and run() after.   *)

\* The events the clients call: an Event and the ProgressEvent.
ApiEvents == {"database_backup", "data_backup"}
Results == {"None", "True", "False"}
ProgressInputs == {-3, 0, 5, 10, 17}

CallEmitStarted(n) ==
    /\ pc = "idle"
    /\ events' = [events EXCEPT ![n] = emit_started(@)]
    /\ op' = [NoOp EXCEPT !.name = "emit_started", !.target = n]
    /\ UNCHANGED <<pc, failed, callback, sink, env, ret, log>>
    /\ UNCHANGED <<botVars, progress_value, writer, reader, mem>>

CallEmitFinished(n, r) ==
    /\ pc = "idle"
    /\ events' = [events EXCEPT ![n] = emit_finished(@, r)]
    /\ op' = [NoOp EXCEPT !.name = "emit_finished", !.target = n, !.arg = r]
    /\ UNCHANGED <<pc, failed, callback, sink, env, ret, log>>
    /\ UNCHANGED <<botVars, progress_value, writer, reader, mem>>

CallEmitProgress(v) ==
    /\ pc = "idle"
    /\ LET r == emit_progress(events["data_backup"], progress_value, v) IN
         /\ events' = [events EXCEPT !["data_backup"] = r.ev]
         /\ progress_value' = r.pv
         /\ op' = [NoOp EXCEPT !.name = "emit_progress",
                               !.target = "data_backup",
                               !.progress = v, !.raised = r.raised]
    /\ UNCHANGED <<pc, failed, callback, sink, env, ret, log>>
    /\ UNCHANGED <<botVars, writer, reader, mem>>

CallClear(n) ==
    /\ pc = "idle"
    /\ LET r == EventClear(events[n], IsProgress(n)) IN
         /\ events' = [events EXCEPT ![n] = r.ev]
         /\ op' = [NoOp EXCEPT !.name = "clear", !.target = n,
                               !.before = events[n], !.raised = r.raised]
    /\ UNCHANGED <<pc, failed, callback, sink, env, ret, log>>
    /\ UNCHANGED <<botVars, progress_value, writer, reader, mem>>

InitEvent ==
    /\ events = BackupEvents
    /\ pc = "idle"
    /\ failed = FALSE
    /\ callback = "None"
    /\ sink = <<>>
    /\ env = [s \in Steps |-> "ok"]
    /\ ret = NoRet
    /\ log = <<>>
    /\ InitBotIdle
    /\ InitApiIdle

NextEvent ==
    \/ \E n \in ApiEvents : CallEmitStarted(n)
    \/ \E n \in ApiEvents, r \in Results : CallEmitFinished(n, r)
    \/ \E v \in ProgressInputs : CallEmitProgress(v)
    \/ \E n \in ApiEvents : CallClear(n)
    \/ Run

SpecEvent == InitEvent /\ [][NextEvent]_vars

----------------------------------------------------------------------------
(* One event, the thread that writes it and threads that read it.  The     *)
(* writer goes through the calls run() makes on an event, one statement    *)
(* at a time: emit_started, emit_finished(r), and clear() at the next      *)
(* run.  A reader tests `finished` and, finding it set, reads `result`.    *)

\* The overall event: the one clear_all clears to the end.
RaceEvent == "backup"
Flags == {PyBool(b) : b \in BOOLEAN}

RaceFrame == <<pc, failed, callback, sink, env, ret, log, botVars,
               progress_value, op, mem>>

\* line 26
WriterEmitStarted ==
    /\ writer.pc = "new"
    /\ events' = [events EXCEPT ![RaceEvent] = emit_started(@)]
    /\ writer' = [writer EXCEPT !.pc = "started"]
    /\ UNCHANGED <<reader, RaceFrame>>

\* emit_finished, line 41: the setter stores a copy under the lock
WriterStoreResult(r) ==
    /\ writer.pc = "started"
    /\ events' = [events EXCEPT ![RaceEvent].result = r]
    /\ writer' = [writer EXCEPT !.pc = "stored", !.arg = r]
    /\ UNCHANGED <<reader, RaceFrame>>

\* emit_finished, line 42
WriterSetFinished ==
    /\ writer.pc = "stored"
    /\ events' = [events EXCEPT ![RaceEvent].finished = TRUE]
    /\ writer' = [writer EXCEPT !.pc = "finished", !.emitted = writer.arg]
    /\ UNCHANGED <<reader, RaceFrame>>

\* clear, line 45
WriterResetResult ==
    /\ writer.pc = "finished"
    /\ events' = [events EXCEPT ![RaceEvent].result = "None"]
    /\ writer' = [writer EXCEPT !.pc = "reset"]
    /\ UNCHANGED <<reader, RaceFrame>>

\* clear, lines 46-49 at `finished`
WriterClearFinished ==
    /\ writer.pc = "reset"
    /\ events' = [events EXCEPT ![RaceEvent].finished = FALSE]
    /\ writer' = [writer EXCEPT !.pc = "unlatched"]
    /\ UNCHANGED <<reader, RaceFrame>>

\* clear, lines 46-49 at `started`
WriterClearStarted ==
    /\ writer.pc = "unlatched"
    /\ events' = [events EXCEPT ![RaceEvent].started = FALSE]
    /\ writer' = [writer EXCEPT !.pc = "new"]
    /\ UNCHANGED <<reader, RaceFrame>>

\* finished.is_set() / finished.wait() returning
ReaderSeesFinished(k) ==
    /\ reader[k].pc = "idle"
    /\ events[RaceEvent].finished
    /\ reader' = [reader EXCEPT ![k] =
                     [pc |-> "saw", expect |-> writer.emitted, got |-> "none"]]
    /\ UNCHANGED <<events, writer, RaceFrame>>

\* the getter, lines 30-33: a copy taken under the lock
ReaderReadsResult(k) ==
    /\ reader[k].pc = "saw"
    /\ events[RaceEvent].result # "unset"
    /\ reader' = [reader EXCEPT ![k].pc = "read",
                                ![k].got = events[RaceEvent].result]
    /\ UNCHANGED <<events, writer, RaceFrame>>

ReaderDone(k) ==
    /\ reader[k].pc = "read"
    /\ reader' = [reader EXCEPT ![k] = NoRead]
    /\ UNCHANGED <<events, writer, RaceFrame>>

NextRace ==
    \/ WriterEmitStarted
    \/ \E r \in Flags : WriterStoreResult(r)
    \/ WriterSetFinished
    \/ WriterResetResult
    \/ WriterClearFinished
    \/ WriterClearStarted
    \/ \E k \in Readers : ReaderSeesFinished(k)
    \/ \E k \in Readers : ReaderReadsResult(k)
    \/ \E k \in Readers : ReaderDone(k)

SpecRace == InitEvent /\ [][NextRace]_vars

----------------------------------------------------------------------------
(* One event and the objects passed to and returned by it: a caller makes  *)
(* a mutable object, passes it to emit_finished, reads the result, and     *)
(* mutates or drops any object it holds.                                   *)

CopyEvent == "database_backup"

CopyFrame == <<pc, failed, callback, sink, env, ret, log, botVars,
               progress_value, op, writer, reader>>

\* The caller builds a new object.
NewObject(c) ==
    /\ Free(mem.heap) # {}
    /\ LET n == CHOOSE f \in Free(mem.heap) : \A g \in Free(mem.heap) : f <= g
       IN  mem' = [mem EXCEPT !.heap[n] = c, !.held = @ \cup {n}]
    /\ UNCHANGED <<events, CopyFrame>>

\* emit_finished(o): the setter stores its copy, then finished.set().  The
\* object __result referred to before is garbage unless someone holds it.
EmitFinishedObject(o) ==
    /\ o \in mem.held
    /\ Free(mem.heap) # {}
    /\ LET r == set_result(mem.heap, o)
           old == mem.stored
           h == IF old # 0 /\ old \notin mem.held /\ old # r.id
                THEN [r.heap EXCEPT ![old] = "free"] ELSE r.heap
       IN  mem' = [mem EXCEPT !.heap = h, !.stored = r.id,
                              !.sent = mem.heap[o], !.got = "none"]
    /\ events' = [events EXCEPT ![CopyEvent] = emit_finished(@, "object")]
    /\ UNCHANGED CopyFrame

\* x = event.result: the getter returns its copy, which the caller holds.
ReadResult ==
    /\ mem.stored # 0
    /\ Free(mem.heap) # {}
    /\ LET r == get_result(mem.heap, mem.stored)
       IN  mem' = [mem EXCEPT !.heap = r.heap, !.held = @ \cup {r.id},
                              !.got = r.heap[r.id]]
    /\ UNCHANGED <<events, CopyFrame>>

\* The caller changes an object it holds in place.
Mutate(o, c) ==
    /\ o \in mem.held
    /\ c # mem.heap[o]
    /\ mem' = [mem EXCEPT !.heap[o] = c]
    /\ UNCHANGED <<events, CopyFrame>>

\* The caller lets go of an object; it is garbage unless __result is it.
Drop(o) ==
    /\ o \in mem.held
    /\ mem' = [mem EXCEPT !.held = @ \ {o},
                          !.heap = IF o = mem.stored THEN @
                                   ELSE [@ EXCEPT ![o] = "free"]]
    /\ UNCHANGED <<events, CopyFrame>>

NextCopy ==
    \/ \E c \in Contents : NewObject(c)
    \/ \E o \in Objects : EmitFinishedObject(o)
    \/ ReadResult
    \/ \E o \in Objects, c \in Contents : Mutate(o, c)
    \/ \E o \in Objects : Drop(o)

SpecCopy == InitEvent /\ [][NextCopy]_vars

----------------------------------------------------------------------------
(* Bot: handlers *)

\* cmd_next carries no permission decorator.
cmd_next(u) ==
    /\ last' = [cmd |-> "next", user |-> u, ran |-> TRUE,
                reply |-> "Not implemented.", owner_notified |-> FALSE,
                opened |-> FALSE]
    /\ UNCHANGED <<known_users, dialog, perm, conv>>
    /\ UNCHANGED <<threadVars, apiVars>>

\* cmd_cancel carries no permission decorator.  Its CommandHandler is added
\* to the dispatcher on its own, so its return value ends no conversation.
cmd_cancel(u) ==
    /\ last' = [cmd |-> "cancel", user |-> u, ran |-> TRUE,
                reply |-> "Canceled.", owner_notified |-> FALSE,
                opened |-> FALSE]
    /\ UNCHANGED <<known_users, dialog, perm, conv>>
    /\ UNCHANGED <<threadVars, apiVars>>

\* cmd_start, with notify_of_unknown_user
cmd_start(u) ==
    /\ last' = IF is_user_known(u)
               THEN [cmd |-> "start", user |-> u, ran |-> TRUE,
                     reply |-> "Hi", owner_notified |-> FALSE,
                     opened |-> FALSE]
               ELSE [cmd |-> "start", user |-> u, ran |-> TRUE,
                     reply |-> "I do not talk to strangers.",
                     owner_notified |-> HasOwner, opened |-> FALSE]
    /\ UNCHANGED <<known_users, dialog, perm, conv>>
    /\ UNCHANGED <<threadVars, apiVars>>

\* cmd_backup under @permission(CmdPermission.ADMIN): the wrapper, then the
\* handler with handle_unknown_user.  It is the conversation's entry point.
cmd_backup(u) ==
    /\ u \notin dialog
    /\ IF user_has_permission(u, ADMIN)
       THEN IF ~is_user_known(u)
            THEN /\ last' = [cmd |-> "backup", user |-> u, ran |-> TRUE,
                             reply |-> "I do not talk to strangers.",
                             owner_notified |-> HasOwner, opened |-> FALSE]
                 /\ UNCHANGED <<dialog, conv>>
            ELSE /\ last' = [cmd |-> "backup", user |-> u, ran |-> TRUE,
                             reply |-> "Are you sure?",
                             owner_notified |-> FALSE, opened |-> TRUE]
                 /\ dialog' = dialog \cup {u}
                 /\ conv' = [conv EXCEPT ![u] = [state |-> "open", timeouts |-> 0]]
       ELSE /\ last' = [cmd |-> "backup", user |-> u, ran |-> FALSE,
                        reply |-> "none", owner_notified |-> FALSE,
                        opened |-> FALSE]
            /\ UNCHANGED <<dialog, conv>>
    /\ UNCHANGED <<known_users, perm>>
    /\ UNCHANGED <<threadVars, apiVars>>

\* backup_button_handler: every branch ends the conversation.
backup_button_handler(u, text) ==
    /\ u \in dialog
    /\ last' = [cmd |-> "text", user |-> u, ran |-> TRUE,
                reply |-> CASE Lower(text) = "yes" ->
                                 "Not implemented to do backups on user request!"
                            [] Lower(text) = "no" -> "Maybe the next time..."
                            [] OTHER -> "Did not expect that reply...",
                owner_notified |-> FALSE, opened |-> FALSE]
    /\ dialog' = dialog \ {u}
    /\ conv' = [conv EXCEPT ![u].state =
                   IF Lower(text) \in {"yes", "no"} THEN "answered"
                   ELSE "unrecognised"]
    /\ UNCHANGED <<known_users, perm>>
    /\ UNCHANGED <<threadVars, apiVars>>

\* A timeout job that is left scheduled when the dialog ends and fires
\* all the same.
TimeoutNotCancelled(u) ==
    /\ conv[u].state # "none"
    /\ last' = [cmd |-> "timeout", user |-> u, ran |-> TRUE,
                reply |-> "Conversation timeout.", owner_notified |-> FALSE,
                opened |-> FALSE]
    /\ dialog' = dialog \ {u}
    /\ conv' = [conv EXCEPT ![u].timeouts = 1,
                            ![u].state = IF @ = "open" THEN "timeout" ELSE @]
    /\ UNCHANGED <<known_users, perm>>
    /\ UNCHANGED <<threadVars, apiVars>>

\* conversation_timeout=10 (line 330): while the dialog is open and no
\* update has been handled in it for the window, the TIMEOUT state's
\* handler is called once with the update that opened it, and the
\* conversation ends.
conversation_timeout(u) ==
    /\ u \in dialog
    /\ last' = [cmd |-> "timeout", user |-> u, ran |-> TRUE,
                reply |-> "Conversation timeout.", owner_notified |-> FALSE,
                opened |-> FALSE]
    /\ dialog' = dialog \ {u}
    /\ conv' = [conv EXCEPT ![u].state = "timeout", ![u].timeouts = @ + 1]
    /\ UNCHANGED <<known_users, perm>>
    /\ UNCHANGED <<threadVars, apiVars>>

\* user_has_permission applied to a caller and a level.
CheckPermission(u, required) ==
    /\ perm' = [user |-> u, required |-> required,
                result |-> user_has_permission(u, required)]
    /\ UNCHANGED <<known_users, dialog, last, conv>>
    /\ UNCHANGED <<threadVars, apiVars>>

\* read_config: known_users is loaded once; the thread is not running.
InitBot ==
    /\ known_users \in [Ids -> Roles \cup {"absent"}]
    /\ dialog = {}
    /\ last = NoUpdate
    /\ perm = NoCheck
    /\ conv = [u \in Ids |-> NoDialog]
    /\ events = BackupEvents
    /\ pc = "idle"
    /\ failed = FALSE
    /\ callback = "None"
    /\ sink = <<>>
    /\ env = [s \in Steps |-> "ok"]
    /\ ret = NoRet
    /\ log = <<>>
    /\ InitApiIdle

NextBot ==
    \/ \E u \in Ids : cmd_next(u)
    \/ \E u \in Ids : cmd_cancel(u)
    \/ \E u \in Ids : cmd_start(u)
    \/ \E u \in Ids : cmd_backup(u)
    \/ \E u \in Ids, text \in Texts : backup_button_handler(u, text)
    \/ \E u \in Ids : conversation_timeout(u)
    \/ \E u \in Ids, required \in CmdPermission : CheckPermission(u, required)

SpecBot == InitBot /\ [][NextBot]_vars

\* The updates the dispatcher handles and the timeout, without the direct
\* evaluations of the permission check.
NextDialog ==
    \/ \E u \in Ids : cmd_next(u)
    \/ \E u \in Ids : cmd_cancel(u)
    \/ \E u \in Ids : cmd_start(u)
    \/ \E u \in Ids : cmd_backup(u)
    \/ \E u \in Ids, text \in Texts : backup_button_handler(u, text)
    \/ \E u \in Ids : conversation_timeout(u)

\* The timeout is a job of the dispatcher's job queue: it runs when due.
SpecDialog ==
    /\ InitBot
    /\ [][NextDialog]_vars
    /\ \A u \in Ids : WF_vars(conversation_timeout(u))

----------------------------------------------------------------------------
(* Properties                                                              *)

ReportedFailure(s) == ret[s] \notin {"none", "ok"}
Invoked(c) == ret[c] # "none"
FailedSteps == {s \in Steps : ReportedFailure(s)}
BackupResult(r) == events["backup"].finished /\ events["backup"].result = r

C3_HappyPath ==
    (pc \in Ended /\ \A s \in Steps : env[s] = "ok")
        => /\ pc = "done"
           /\ \A n \in EventNames \ {"backup"} :
                  events[n].started /\ events[n].finished
           /\ BackupResult("True")

C8_RunEndsWithOutcome ==
    pc \in Ended
        => events["backup"].finished /\ events["backup"].result \in {"True", "False"}

\* The role the claims give a caller: its listed role, stranger when absent.
CallerLevel(u) == IF is_user_known(u) THEN user_permission_level(u) ELSE STRANGER

\* C9: a registered command's handler runs exactly when the caller's role is
\* at least as privileged as the command's permission; a rejected call
\* produces no reply and opens no dialog.
C9_DispatchEnforcesPermission ==
    last.cmd \in DOMAIN commands
        => /\ last.ran <=> CallerLevel(last.user) <= commands[last.cmd].permission
           /\ ~last.ran => (last.reply = "none" /\ ~last.opened)

\* C10: user_has_permission(caller, required) is true exactly when the
\* caller's role, stranger when absent, is at least as privileged as required.
C10_PermissionIsRoleOrder ==
    perm.required \in CmdPermission
        => (perm.result <=> CallerLevel(perm.user) <= perm.required)

\* C11: on every Event and ProgressEvent, clear() called on an event that
\* emit_started and emit_finished(r) (and emit_progress(v)) have latched
\* returns and leaves the event as constructed: not started, not finished, progress not
\* signalled, result None, no stored progress.
C11_ClearRestoresConstruction ==
    (op.name = "clear" /\ op.before.started /\ op.before.finished) =>
        /\ ~op.raised
        /\ ~events[op.target].started
        /\ ~events[op.target].finished
        /\ ~events[op.target].progress
        /\ events[op.target].result = "None"
        /\ (IsProgress(op.target) => progress_value = {})

\* C12: emit_progress(v) stores v clamped to [0, 1] as the readable
\* progress_value and latches the progress signal.
C12_EmitProgressStoresClamp ==
    op.name = "emit_progress" =>
        /\ ~op.raised
        /\ events["data_backup"].progress
        /\ progress_value = {Clamp(op.progress)}

\* C18: once run() is past clear_all, whatever state the events were left
\* in, every one of the five events is not started, not finished and has
\* the default result None.
C18_RunStartsFromClearedEvents ==
    pc # "idle" => events = ClearedEvents

SinkFailed == \E i \in 1..Len(sink) : sink[i].outcome # "ok"

StageEvents == EventNames \ {"backup"}
StageCommand(n) ==
    CASE n = "database_backup" -> "mysql_dump"
      [] n = "data_backup" -> "rsync"
      [] OTHER -> n

SignalOrder ==
    << <<"enable_maintenance", "started">>, <<"enable_maintenance", "finished">>,
       <<"database_backup", "started">>, <<"database_backup", "finished">>,
       <<"data_backup", "started">>, <<"data_backup", "finished">>,
       <<"disable_maintenance", "started">>, <<"disable_maintenance", "finished">>,
       <<"backup", "finished">> >>
Rank(sig) == CHOOSE i \in 1..Len(SignalOrder) : SignalOrder[i] = sig
Latched(n, k) == IF k = "started" THEN events[n].started ELSE events[n].finished
Running == {n \in StageEvents : events[n].started /\ ~events[n].finished}

C19_ReaderGetsEmittedResult ==
    \A k \in Readers :
        reader[k].pc = "read" => reader[k].got = reader[k].expect

\* C15: after emit_finished(r) every read of result returns the value r
\* had at the call, whatever the caller does afterwards to the object it
\* passed or to an object an earlier read returned: the event's own object
\* is none of the caller's and still holds that value.
C15_ResultIsIndependentCopy ==
    mem.stored # 0 =>
        /\ events[CopyEvent].finished
        /\ mem.stored \notin mem.held
        /\ mem.heap[mem.stored] = mem.sent
        /\ mem.got \in {"none", mem.sent}

\* A read returned r although the callers' objects all differ from r by
\* now: the object passed and an earlier returned copy were both mutated.
C15_Witness ==
    /\ mem.stored # 0
    /\ mem.got = mem.sent
    /\ Cardinality(mem.held) >= 3
    /\ \A o \in mem.held : mem.heap[o] # mem.sent

Closed(u) == conv[u].state \in {"answered", "unrecognised", "timeout"}

\* C13: a confirmation dialog that ended without a valid yes/no reply, an
\* unrecognised reply included, ended with exactly one timeout
\* notification, and no backup run was started.
C13_NoValidReplyEndsInTimeout ==
    \A u \in Ids :
        (Closed(u) /\ conv[u].state # "answered") =>
            /\ conv[u].timeouts = 1
            /\ pc = "idle"

\* C13 as the code has it: an open dialog ends either by the first reply
\* the dialog handles (yes, no or anything else, none of which is followed
\* by a timeout notification) or, with no reply in the window, by the
\* timeout with exactly one timeout notification; no backup run is started
\* either way.
DialogEndings ==
    /\ \A u \in Ids :
        /\ u \in dialog <=> conv[u].state = "open"
        /\ conv[u].state = "timeout" => conv[u].timeouts = 1
        /\ conv[u].state \in {"none", "open", "answered", "unrecognised"} =>
               conv[u].timeouts = 0
    /\ last.cmd = "timeout" =>
        /\ conv[last.user].state = "timeout"
        /\ last.reply = "Conversation timeout."
    /\ pc = "idle"

C13_TimeoutOnlyWithoutReply ==
    /\ []DialogEndings
    /\ \A u \in Ids : (u \in dialog) ~> (u \notin dialog)

\* A dialog timed out, and another ended on an unrecognised reply.
C13_Witness ==
    /\ last.cmd = "timeout"
    /\ \E u \in Ids : conv[u].state = "timeout" /\ conv[u].timeouts = 1
    /\ \E u \in Ids : conv[u].state = "unrecognised" /\ conv[u].timeouts = 0

====
